---- MODULE Spec2Model ----
(***************************************************************************)
(* Model of the command dispatch engine of the smart factory voice         *)
(* assistant (src/app.py): the action dispatcher perform_action, the       *)
(* snapshot fetcher _fetch_all_external_data_internal, the request handler *)
(* process_command, and the remote factory-state service they talk to.     *)
(*                                                                         *)
(* Python values are encoded as follows.                                   *)
(*   - None is the string None; every optional string is a string.         *)
(*   - a number-valued Command field is a record [t, v]: t = "none" for    *)
(*     None, t = "int" for the integer v, t = "str" for a non-integer      *)
(*     (the string that spells v).                                         *)
(*   - a JSON value is a record tagged by jt: "invalid" (the body is not   *)
(*     JSON), "null", "list" (the empty array), "items" (any other array, *)
(*     with its elements in field elems), "number" (not 0), "zero",        *)
(*     "object" (with the dict in field obj, a record whose DOMAIN is the  *)
(*     dict's key set; {} is the empty function).                          *)
(*   - a returned text is a record [kind, text, ...]: kind names the       *)
(*     return statement, text is the string the code builds; an uncaught   *)
(*     exception is a record of kind "RAISED".                             *)
(***************************************************************************)
EXTENDS Integers, Sequences, FiniteSets, TLC

VARIABLES
    remote,      \* the remote factory-state service: lights, power, cartons_num
    cmd,         \* the Command handed to perform_action (the parse result)
    token,       \* user_auth_token
    lang,        \* input_language of the request (process_command)
    upload,      \* per worker: the audio uploaded with a /transcribe request
    files,       \* the working directory: the file each path names, if any
    pc,          \* per worker: where the request is
    calls,       \* per worker: the outbound calls of the current dispatch, in order
    result,      \* per worker: what perform_action returned (or raised)
    reply,       \* per worker: the HTTP reply of process_command
    dispatches,  \* number of perform_action calls started so far
    posts,       \* mutating requests issued so far, over all dispatches
    applied      \* mutating requests the remote service has applied so far

vars == <<remote, cmd, token, lang, upload, files, pc, calls, result, reply, dispatches, posts, applied>>

-----------------------------------------------------------------------------
(* Bounds *)

\* how many times the same command is dispatched in one behaviour
MaxDispatches == 3

-----------------------------------------------------------------------------
(* Python values *)

None == "<None>"

\* Python truthiness of an optional string: None and "" are falsy
Truthy(s) == s \notin {None, ""}

NoneV == [t |-> "none", v |-> 0]
IntV(n) == [t |-> "int", v |-> n]
StrV(n) == [t |-> "str", v |-> n]

\* str.lower() on the names the model uses
Lower(s) ==
    CASE s = "Machine Room" -> "machine room"
      [] s = "MACHINE ROOM" -> "machine room"
      [] s = "Warehouse"    -> "warehouse"
      [] s = "Furnace"      -> "furnace"
      [] s = "FURNACE"      -> "furnace"
      [] s = "Conveyor"     -> "conveyor"
      [] s = "Teleporter"   -> "teleporter"
      [] OTHER              -> s

JInvalid == [jt |-> "invalid"]
JNull == [jt |-> "null"]
JList == [jt |-> "list"]          \* the empty array []
JArray(elems) == [jt |-> "items", elems |-> elems]   \* an array that is not empty
JItems == JArray(<<"x">>)         \* ["x"]
JLights == JArray(<<"lights">>)   \* ["lights"]
JNum == [jt |-> "number"]         \* a non-zero number
JZero == [jt |-> "zero"]          \* the number 0
JObj(d) == [jt |-> "object", obj |-> d]

\* the dict without keys, {}
EmptyDict == <<>>

\* `not x` for a JSON value: None, 0, [] and {} are falsy
Falsy(j) ==
    \/ j.jt \in {"null", "list", "zero"}
    \/ j.jt = "object" /\ DOMAIN j.obj = {}

\* isinstance(x, dict)
IsDict(j) == j.jt = "object"

\* key in dict
HasKey(j, k) == k \in DOMAIN j.obj

\* x in list
HasItem(j, x) == \E i \in 1..Len(j.elems) : j.elems[i] = x

\* "on" if b else "off"
OnOff(b) == IF b THEN "on" ELSE "off"

Text(kind, text) == [kind |-> kind, text |-> text]
Raised(exc) == [kind |-> "RAISED", exc |-> exc]

-----------------------------------------------------------------------------
(* The remote factory-state service (GET /data/all) *)

\* The room and the machine whose state the model tracks; the other entries
\* of the snapshot never change.
RoomsOf(r) ==
    << [name |-> "Warehouse", lights |-> <<FALSE, TRUE>>, temperature |-> 21],
       [name |-> "Machine Room", lights |-> r.lights, temperature |-> 30] >>

MachinesOf(r) ==
    << [name |-> "Conveyor", power |-> TRUE, maintenance |-> r.maintenance[1],
        temperature |-> 40],
       [name |-> "Furnace", power |-> r.power, maintenance |-> r.maintenance[2],
        temperature |-> 82] >>

\* The body GET /data/all is documented to return.
SnapshotOf(r) ==
    [rooms |-> RoomsOf(r), machines |-> MachinesOf(r), cartons_num |-> r.cartons_num]

\* Bodies with a field or an entry missing.
DefectiveSnapshots(r) ==
    LET full == SnapshotOf(r)
        wh == RoomsOf(r)[1]
        cv == MachinesOf(r)[1]
    IN  { [full EXCEPT !.rooms = <<wh>>],
          [full EXCEPT !.rooms = <<wh, [name |-> "Machine Room"]>>],
          [full EXCEPT !.rooms = <<wh, [name |-> "Machine Room", lights |-> SubSeq(r.lights, 1, 1)]>>],
          [full EXCEPT !.rooms = <<[lights |-> r.lights], wh>>],
          [full EXCEPT !.machines = <<cv>>],
          [full EXCEPT !.machines = <<cv, [name |-> "Furnace"]>>],
          [full EXCEPT !.machines = <<[power |-> r.power], cv>>],
          [machines |-> MachinesOf(r), cartons_num |-> r.cartons_num],
          [rooms |-> RoomsOf(r), cartons_num |-> r.cartons_num],
          [error |-> "maintenance window"] }

\* The class of the exception response.json() raises on a body that is not
\* JSON depends on the installed requests: requests.exceptions.JSONDecodeError
\* (a RequestException and a json.JSONDecodeError) or json.JSONDecodeError (a
\* ValueError, no RequestException).
JsonErrorClasses == {"RequestsJSONDecodeError", "JSONDecodeError"}

\* What requests.get can produce: a transport failure, or a response.
GetOutcomes(r) ==
    {[kind |-> "transport"]}
    \cup {[kind |-> "response", status |-> st, text |-> "Internal Server Error",
           json |-> JInvalid, exc |-> "JSONDecodeError"] : st \in {404, 500}}
    \cup {[kind |-> "response", status |-> 200, text |-> "<html>", json |-> JInvalid,
           exc |-> e] : e \in JsonErrorClasses}
    \cup {[kind |-> "response", status |-> 200, text |-> "json", json |-> j,
           exc |-> "JSONDecodeError"] :
            j \in {JNull, JList, JItems, JLights, JNum, JZero, JObj(EmptyDict)}
                  \cup {JObj(d) : d \in {SnapshotOf(r)} \cup DefectiveSnapshots(r)}}

\* response.raise_for_status()
IsHttpError(status) == status >= 400 /\ status < 600

\* _fetch_all_external_data_internal, given what requests.get produced
FetchAllExternalData(o) ==
    IF o.kind = "transport"
    THEN JObj([error |-> "Network error retrieving data from factory system."])
    ELSE IF IsHttpError(o.status)
    THEN JObj([error |-> "Failed to retrieve data: " \o o.text])
    ELSE IF o.json.jt = "invalid"
    THEN IF o.exc = "RequestsJSONDecodeError"
         THEN JObj([error |-> "Network error retrieving data from factory system."])
         ELSE JObj([error |-> "Error parsing data from factory system."])
    ELSE o.json

\* isinstance(all_data, dict) and "error" in all_data
FetchFailed(all_data) == IsDict(all_data) /\ HasKey(all_data, "error")

-----------------------------------------------------------------------------
(* perform_action: the action dispatcher *)

\* What perform_action does next: return a text (or raise), or block on an
\* outbound call.
Return(r) == [act |-> "return", result |-> r]
Get == [act |-> "get"]
Post(path, payload) == [act |-> "post", path |-> path, payload |-> payload]

MsgAuthRequired == "I'm sorry, I need you to log in first to perform this action."
MsgParseResponse ==
    "An unexpected error occurred while trying to process the response from the factory system."
MsgUnexpected == "An unexpected error occurred while trying to perform that action."

\* except (json.JSONDecodeError, IndexError, KeyError)
CaughtParse == Return(Text("parse_response", MsgParseResponse))
\* except Exception
CaughtOther == Return(Text("unexpected", MsgUnexpected))

\* A check that takes only a missing token for "no token".
NoTokenOnlyNone(tok) == tok = None

\* not user_auth_token
NoToken(tok) == ~Truthy(tok)

\* seq[k] with Python's zero-based k
PyIndex(seq, k) == seq[k + 1]

\* A lookup that takes the first entry without comparing names.
FirstHitAnyName(entries, name) == IF Len(entries) = 0 THEN 0 ELSE 1

\* The loop `for e in entries: if e["name"].lower() == name.lower(): ...; break`:
\* the position of the first entry that matches, or that has no "name" (the
\* loop dies there with KeyError); 0 when the loop runs to its end.
FirstHit(entries, name) ==
    LET hits == {i \in 1..Len(entries) :
                    \/ "name" \notin DOMAIN entries[i]
                    \/ Lower(entries[i].name) = Lower(name)}
    IN  IF hits = {} THEN 0 ELSE CHOOSE i \in hits : \A j \in hits : i <= j

\* all_data.get(key, [])
GetList(all_data, key) == IF HasKey(all_data, key) THEN all_data.obj[key] ELSE <<>>

\* light_num not in [1, 2]
LightNumInvalid(n) == ~(n.t = "int" /\ n.v \in {1, 2})

\* A validation that forgets the sign of the count.
CartonsInvalidNoSign(x) == x.t = "none" \/ x.t # "int"

\* cartons is None or not isinstance(cartons, int) or cartons <= 0
CartonsInvalid(x) == x.t = "none" \/ x.t # "int" \/ x.v <= 0

\* A comparison with the test inverted, and one that never short-circuits.
AlreadyInStateInverted(desired, current) == Truthy(desired) /\ desired # current
AlreadyInStateNever(desired, current) == FALSE

\* if desired_power_state: if desired_power_state == current: return "already"
AlreadyInState(desired, current) == Truthy(desired) /\ desired = current

\* The index sent without the conversion to zero-based.
PayloadIndexOneBased(n) == n

\* light_num - 1, the index sent to the remote service
PayloadIndex(n) == n - 1

\* Lines 386-401, 449-451, 488-519: everything before the first outbound call.
PerformActionStart(c, tok) ==
    IF NoToken(tok) THEN Return(Text("auth_required", MsgAuthRequired))
    ELSE CASE c.intent = "toggle_lights" ->
                IF ~Truthy(c.entity_name) \/ ~(c.entity_type = "room") \/ c.light_num.t = "none"
                THEN Return(Text("need_room_and_light",
                        "I need a room name and the light number (1 or 2) to toggle lights."))
                ELSE IF LightNumInvalid(c.light_num)
                THEN Return(Text("light_num_invalid", "Light number must be 1 or 2."))
                ELSE Get
           [] c.intent = "toggle_machine_power" ->
                IF ~Truthy(c.entity_name) \/ ~(c.entity_type = "machine")
                THEN Return(Text("need_machine", "I need a machine name to toggle its power."))
                ELSE Get
           [] c.intent = "record_sale" ->
                IF CartonsInvalid(c.cartons_sold)
                THEN Return(Text("sold_invalid", "Please specify a valid number of cartons sold."))
                ELSE Post("/tx/sale",
                          [cartons_sold |-> c.cartons_sold.v, DateTime |-> "<now>",
                           Buyer |-> IF Truthy(c.buyer) THEN c.buyer ELSE "Unknown"])
           [] c.intent = "record_cartons" ->
                IF CartonsInvalid(c.cartons_produced)
                THEN Return(Text("produced_invalid",
                        "Please specify a valid number of cartons produced."))
                ELSE Post("/tx/cartons",
                          [cartons_produced |-> c.cartons_produced.v, DateTime |-> "<now>"])
           [] OTHER ->
                Return(Text("unknown_action",
                        "I'm sorry, I don't know how to perform that specific action yet."))

\* Lines 404-435: toggle_lights from the return of the snapshot read to the POST.
ToggleLightsAfterFetch(c, all_data) ==
    IF FetchFailed(all_data) THEN Return(Text("fetch_error", all_data.obj.error))
    ELSE IF ~IsDict(all_data) THEN CaughtOther      \* all_data.get: AttributeError
    ELSE
    LET rooms == GetList(all_data, "rooms")
        i == FirstHit(rooms, c.entity_name)
        n == c.light_num.v
    IN  IF i # 0 /\ "name" \notin DOMAIN rooms[i] THEN CaughtParse      \* KeyError
        ELSE IF i = 0 \/ "lights" \notin DOMAIN rooms[i] \/ Len(rooms[i].lights) < n
        THEN Return(Text("no_light_data",
                "Could not find light " \o ToString(n) \o " data for room: " \o c.entity_name
                \o ". Ensure it exists and has light data."))
        ELSE LET current == OnOff(PyIndex(rooms[i].lights, n - 1))
             IN  IF AlreadyInState(c.desired_power_state, current)
                 THEN Return([kind |-> "already", state |-> current,
                              text |-> "Light " \o ToString(n) \o " in the " \o c.entity_name
                                       \o " is already " \o current \o "."])
                 ELSE Post("/toggle/lights",
                           [room_name |-> c.entity_name, light_num |-> PayloadIndex(n)])

\* Lines 454-482: toggle_machine_power from the return of the snapshot read to the POST.
ToggleMachineAfterFetch(c, all_data) ==
    IF FetchFailed(all_data) THEN Return(Text("fetch_error", all_data.obj.error))
    ELSE IF ~IsDict(all_data) THEN CaughtOther      \* all_data.get: AttributeError
    ELSE
    LET machines == GetList(all_data, "machines")
        i == FirstHit(machines, c.entity_name)
    IN  IF i # 0 /\ "name" \notin DOMAIN machines[i] THEN CaughtParse   \* KeyError
        ELSE IF i = 0
        THEN Return(Text("no_machine_data",
                "Could not find data for machine: " \o c.entity_name \o "."))
        ELSE LET current == OnOff("power" \in DOMAIN machines[i] /\ machines[i].power)
             IN  IF AlreadyInState(c.desired_power_state, current)
                 THEN Return([kind |-> "already", state |-> current,
                              text |-> "The " \o c.entity_name \o " is already "
                                       \o current \o "."])
                 ELSE Post("/toggle/machine", [machine_name |-> c.entity_name])

PerformActionAfterFetch(c, all_data) ==
    IF c.intent = "toggle_lights"
    THEN ToggleLightsAfterFetch(c, all_data)
    ELSE ToggleMachineAfterFetch(c, all_data)

\* f"{d.get(key)}" for a string-valued and for a number-valued key
GetStr(d, key) == IF key \in DOMAIN d THEN d[key] ELSE "None"
GetNum(d, key) == IF key \in DOMAIN d THEN ToString(d[key]) ELSE "None"

\* error_json = e.response.json(); f"<prefix>{error_json.get('error', e.response.text)}"
\* inside `try ... except json.JSONDecodeError: f"<prefix>{e.response.text}"`
ErrorDetail(kind, prefix, resp) ==
    IF resp.json.jt = "invalid" THEN Return(Text(kind, prefix \o resp.text))
    ELSE IF ~IsDict(resp.json) THEN Return(Raised("AttributeError"))
    ELSE IF HasKey(resp.json, "error")
    THEN Return(Text(kind, prefix \o resp.json.obj.error))
    ELSE Return(Text(kind, prefix \o resp.text))

\* A dispatcher that runs the action again when the service answers 500.
HttpErrorHandlerRetry(c, resp) ==
    IF resp.status = 500 THEN PerformActionStart(c, "tok")
    ELSE Return(Text("server_error",
            "Failed to perform action due to a server error: " \o resp.text))

\* Lines 521-538: except requests.exceptions.HTTPError (c.intent is only logged)
HttpErrorHandler(c, resp) ==
    IF resp.status = 401 \/ resp.status = 403
    THEN Return(Text("auth_failed", "Authentication failed. Please ensure you are logged in."))
    ELSE IF resp.status = 400 THEN ErrorDetail("bad_request", "Bad request: ", resp)
    ELSE IF resp.status = 404 THEN ErrorDetail("not_found", "Entity not found: ", resp)
    ELSE Return(Text("server_error",
            "Failed to perform action due to a server error: " \o resp.text))

\* Lines 437-446: toggle_lights after a 2xx response
ToggleLightsResult(c, body) ==
    LET n == c.light_num.v
    IN  IF body.jt = "invalid" THEN CaughtParse         \* response.json(): JSONDecodeError
        ELSE IF body.jt \in {"null", "number", "zero"} THEN CaughtOther   \* 'lights' in None: TypeError
        ELSE IF body.jt = "items" /\ HasItem(body, "lights")
        THEN CaughtOther                                \* result['lights'] of a list: TypeError
        ELSE IF IsDict(body) /\ HasKey(body, "lights") /\ Len(body.obj.lights) >= n
        THEN LET new == OnOff(PyIndex(body.obj.lights, n - 1))
             IN  Return([kind |-> "now", state |-> new,
                         text |-> "Light " \o ToString(n) \o " in "
                                  \o GetStr(body.obj, "room_name") \o " is now " \o new \o "."])
        ELSE Return(Text("unconfirmed",
                "Successfully sent toggle command for light " \o ToString(n) \o " in "
                \o c.entity_name \o ", but could not confirm its new state."))

\* Lines 484-486: toggle_machine_power after a 2xx response
ToggleMachineResult(c, body) ==
    IF body.jt = "invalid" THEN CaughtParse
    ELSE IF ~IsDict(body) THEN CaughtOther              \* result.get: AttributeError
    ELSE LET new == OnOff(HasKey(body, "power") /\ body.obj.power)
         IN  Return([kind |-> "now", state |-> new,
                     text |-> "The " \o GetStr(body.obj, "machine_name") \o " is now "
                              \o new \o "."])

\* Lines 501-502: record_sale after a 2xx response
RecordSaleResult(body) ==
    IF body.jt = "invalid" THEN CaughtParse
    ELSE IF ~IsDict(body) THEN CaughtOther
    ELSE Return(Text("sale_recorded",
            "Recorded sale of " \o GetNum(body.obj, "cartons_sold") \o " cartons to "
            \o GetStr(body.obj, "Buyer") \o "."))

\* Lines 515-516: record_cartons after a 2xx response
RecordCartonsResult(body) ==
    IF body.jt = "invalid" THEN CaughtParse
    ELSE IF ~IsDict(body) THEN CaughtOther
    ELSE IF HasKey(body, "addition") /\ ~IsDict(body.obj.addition)
    THEN CaughtOther                                    \* None.get: AttributeError
    ELSE LET addition == IF HasKey(body, "addition") THEN body.obj.addition.obj
                         ELSE EmptyDict
         IN  Return(Text("cartons_recorded",
                "Recorded production of " \o GetNum(addition, "cartons_produced")
                \o " cartons. Total cartons now " \o GetNum(body.obj, "cartons_num") \o "."))

\* From the return of requests.post to the return of perform_action.
PerformActionAfterPost(c, o) ==
    IF o.kind = "transport" THEN CaughtOther            \* a RequestException, no HTTPError
    ELSE IF IsHttpError(o.status) THEN HttpErrorHandler(c, o)
    ELSE CASE c.intent = "toggle_lights" -> ToggleLightsResult(c, o.json)
           [] c.intent = "toggle_machine_power" -> ToggleMachineResult(c, o.json)
           [] c.intent = "record_sale" -> RecordSaleResult(o.json)
           [] OTHER -> RecordCartonsResult(o.json)

-----------------------------------------------------------------------------
(* The remote factory-state service (the mutating endpoints) *)

Flip(lights, k) == [lights EXCEPT ![k + 1] = ~lights[k + 1]]

\* Whether the service can carry the request out: it knows its entities by
\* their exact names.
Applicable(req) ==
    CASE req.path = "/toggle/lights" ->
            req.payload.room_name = "Machine Room" /\ req.payload.light_num \in {0, 1}
      [] req.path = "/toggle/machine" -> req.payload.machine_name = "Furnace"
      [] OTHER -> TRUE

\* The state of the service after it has carried the request out: a toggle
\* flips the addressed light or machine.
Apply(r, req) ==
    CASE req.path = "/toggle/lights" ->
            [r EXCEPT !.lights = Flip(r.lights, req.payload.light_num)]
      [] req.path = "/toggle/machine" -> [r EXCEPT !.power = ~r.power]
      [] req.path = "/tx/cartons" ->
            [r EXCEPT !.cartons_num = r.cartons_num + req.payload.cartons_produced]
      [] OTHER -> r

\* The bodies a 2xx response can carry: the documented one (the state after
\* the write), one reporting the state before it, and malformed ones.
OkBodies(r, req) ==
    LET r2 == Apply(r, req)
    IN  {JInvalid, JNull, JList, JItems, JLights, JNum, JZero, JObj(EmptyDict)} \cup
        CASE req.path = "/toggle/lights" ->
                { JObj([room_name |-> req.payload.room_name, lights |-> r2.lights]),
                  JObj([room_name |-> req.payload.room_name, lights |-> r.lights]),
                  JObj([room_name |-> req.payload.room_name, lights |-> SubSeq(r2.lights, 1, 1)]),
                  JObj([room_name |-> req.payload.room_name]),
                  JObj([lights |-> r2.lights]) }
          [] req.path = "/toggle/machine" ->
                { JObj([machine_name |-> req.payload.machine_name, power |-> r2.power]),
                  JObj([machine_name |-> req.payload.machine_name, power |-> r.power]),
                  JObj([machine_name |-> req.payload.machine_name]),
                  JObj([power |-> r2.power]) }
          [] req.path = "/tx/sale" ->
                { JObj([cartons_sold |-> req.payload.cartons_sold, Buyer |-> req.payload.Buyer]),
                  JObj([status |-> "ok"]) }
          [] OTHER ->
                { JObj([addition |-> JObj([cartons_produced |-> req.payload.cartons_produced]),
                        cartons_num |-> r2.cartons_num]),
                  JObj([addition |-> JNull, cartons_num |-> r2.cartons_num]),
                  JObj([cartons_num |-> r2.cartons_num]) }

\* The bodies of a 4xx/5xx response: text and what it parses to.
ErrorBodies ==
    { [text |-> "Bad Gateway", json |-> JInvalid],
      [text |-> "{\"error\": \"Invalid request\"}", json |-> JObj([error |-> "Invalid request"])],
      [text |-> "{\"message\": \"no\"}", json |-> JObj([message |-> "no"])],
      [text |-> "[]", json |-> JList] }

ErrorStatuses == {400, 401, 403, 404, 500}

\* What requests.post can produce, with the state the service is left in: a
\* transport failure before or after the service acted, a 2xx response after it
\* acted, or a 4xx/5xx response with the state unchanged.
PostOutcomes(r, req) ==
    {[kind |-> "transport", applied |-> FALSE, remote |-> r]}
    \cup {[kind |-> "response", status |-> st, text |-> b.text, json |-> b.json,
           applied |-> FALSE, remote |-> r] : st \in ErrorStatuses, b \in ErrorBodies}
    \cup IF Applicable(req)
         THEN {[kind |-> "transport", applied |-> TRUE, remote |-> Apply(r, req)]}
              \cup {[kind |-> "response", status |-> 200, text |-> "body", json |-> j,
                     applied |-> TRUE, remote |-> Apply(r, req)] : j \in OkBodies(r, req)}
         ELSE {}

-----------------------------------------------------------------------------
(* get_sensor_data: the query resolver *)

\* config.json: field_mappings and maintenance_status_map
FieldIntents == {"temperature", "power_usage", "humidity", "lights"}

field_map(intent) ==
    CASE intent = "temperature" -> [field_name |-> "temperature", unit |-> "degrees Celsius"]
      [] intent = "power_usage" -> [field_name |-> "power_usage", unit |-> "watts"]
      [] intent = "humidity"    -> [field_name |-> "humidity", unit |-> "percent"]
      [] OTHER                  -> [field_name |-> "lights", unit |-> ""]

MaintenanceIntents == {"normal_operation", "not_normal", "clogged_filter", "bearing_wear"}

\* a string to match exactly, or {"$ne": <string>}
maintenance_status_map(intent) ==
    CASE intent = "normal_operation" -> [op |-> "eq", value |-> "Normal Operation"]
      [] intent = "not_normal"       -> [op |-> "ne", value |-> "Normal Operation"]
      [] intent = "clogged_filter"   -> [op |-> "eq", value |-> "clogged_filter"]
      [] OTHER                       -> [op |-> "eq", value |-> "bearing_wear"]

\* s.replace('_', ' ') on the strings the model uses
Humanize(s) ==
    CASE s = "power_usage"        -> "power usage"
      [] s = "normal_operation"   -> "normal operation"
      [] s = "not_normal"         -> "not normal"
      [] s = "clogged_filter"     -> "clogged filter"
      [] s = "bearing_wear"       -> "bearing wear"
      [] s = "get_machine_status" -> "get machine status"
      [] s = "cartons_produced"   -> "cartons produced"
      [] s = "cartons_sold"       -> "cartons sold"
      [] s = "unknown_intent"     -> "unknown intent"
      [] OTHER                    -> s

\* MAINTENANCE_DISPLAY_NAMES.get(key, key.replace('_', ' '))
DisplayName(key) ==
    CASE key = "Normal Operation" -> "operating normally"
      [] key = "not_normal"       -> "not operating normally"
      [] key = "clogged_filter"   -> "having a clogged filter"
      [] key = "bearing_wear"     -> "experiencing bearing wear"
      [] key = "alerts"           -> "having alerts"
      [] OTHER                    -> Humanize(key)

\* ', '.join(names)
RECURSIVE Join(_)
Join(names) ==
    IF Len(names) = 0 THEN ""
    ELSE IF Len(names) = 1 THEN names[1]
    ELSE names[1] \o ", " \o Join(Tail(names))

\* The indices picked by a loop `for m in machines: if <test>: append(m["name"])`
\* as the sequence of the names, in the order of the snapshot.
RECURSIVE NamesAt(_, _, _)
NamesAt(machines, picked, i) ==
    IF i > Len(machines) THEN <<>>
    ELSE IF i \in picked THEN <<machines[i].name>> \o NamesAt(machines, picked, i + 1)
    ELSE NamesAt(machines, picked, i + 1)

\* machine.get("maintenance") != "Normal Operation"
AlertPicked(machines) ==
    {i \in 1..Len(machines) :
        "maintenance" \notin DOMAIN machines[i] \/ machines[i].maintenance # "Normal Operation"}

\* A resolver that reads a not-equal entry of the catalog as an exact match.
StatusPickedEqOnly(machines, target) ==
    {i \in 1..Len(machines) :
        "maintenance" \in DOMAIN machines[i] /\ machines[i].maintenance = target.value}

\* "maintenance" in machine and the catalog's predicate holds of it
StatusPicked(machines, target) ==
    {i \in 1..Len(machines) :
        /\ "maintenance" \in DOMAIN machines[i]
        /\ IF target.op = "ne" THEN machines[i].maintenance # target.value
           ELSE machines[i].maintenance = target.value}

\* A resolver that never looks at the entity name.
NamesEntityNever(entity_name) == FALSE

\* `if entity_name:` (lines 335 and 339): the Command names an entity
NamesEntity(entity_name) == Truthy(entity_name)

\* Lines 310-342: the maintenance intents and alerts
MaintenanceAnswer(intent, entity_name, machines) ==
    LET picked == IF intent = "alerts" THEN AlertPicked(machines)
                  ELSE StatusPicked(machines, maintenance_status_map(intent))
        matching == NamesAt(machines, picked, 1)
        display_name == DisplayName(intent)
    IN  IF \E i \in picked : "name" \notin DOMAIN machines[i] THEN Raised("KeyError")
        ELSE IF intent = "alerts"
        THEN IF Len(matching) = 0
             THEN Text("no_alerts",
                    "There are no machines currently reporting alerts or abnormal status.")
             ELSE Text("alerts_list",
                    "The machines currently reporting alerts or abnormal status are: "
                    \o Join(matching) \o ".")
        ELSE IF Len(matching) = 0
        THEN IF NamesEntity(entity_name)
             THEN Text("entity_not_status",
                    "The " \o entity_name \o " is not currently " \o display_name \o ".")
             ELSE Text("none_with_status",
                    "No machines found that are currently " \o display_name \o ".")
        ELSE IF NamesEntity(entity_name)
        THEN Text("entity_status",
                "The " \o entity_name \o " is currently " \o display_name \o ".")
        ELSE Text("status_list",
                "The machines currently " \o display_name \o " are: " \o Join(matching) \o ".")

\* Lines 290-305: get_machine_status
MachineStatusAnswer(entity_name, entity_type, machines) ==
    IF Truthy(entity_name) /\ entity_type = "machine"
    THEN LET i == FirstHit(machines, entity_name)
         IN  IF i # 0 /\ "name" \notin DOMAIN machines[i] THEN Raised("KeyError")
             ELSE IF i # 0 /\ "maintenance" \in DOMAIN machines[i]
             THEN Text("machine_status",
                    "The " \o entity_name \o " is currently "
                    \o DisplayName(machines[i].maintenance) \o ".")
             ELSE Text("no_maintenance_data",
                    "Could not find maintenance data for " \o entity_name \o ".")
    ELSE Text("need_machine_name", "Please specify a machine name to get its status.")

\* Lines 364-377: the answer about the entity found
FieldAnswer(intent, entity_type, target) ==
    LET info == field_map(intent)
    IN  IF intent \in FieldIntents /\ info.field_name \in DOMAIN target
        THEN IF intent = "lights" /\ entity_type = "room"
             THEN IF Len(target.lights) < 2 THEN Raised("IndexError")
                  ELSE Text("lights",
                        "In the " \o target.name \o ", light one is "
                        \o OnOff(PyIndex(target.lights, 0)) \o " and light two is "
                        \o OnOff(PyIndex(target.lights, 1)) \o ".")
             ELSE Text("field",
                    "The " \o Humanize(intent) \o " of the " \o target.name \o " is "
                    \o ToString(target[info.field_name]) \o " " \o info.unit \o ".")
        ELSE Text("no_field_data",
                "No " \o Humanize(intent) \o " data found for " \o target.name \o ".")

\* Lines 352-382: the per-entity lookup and the fallback
EntityAnswer(intent, entity_name, entity_type, rooms, machines) ==
    LET entries == IF entity_type = "machine" THEN machines
                   ELSE IF entity_type = "room" THEN rooms ELSE <<>>
        i == IF entity_name = None THEN 0 ELSE FirstHit(entries, entity_name)
    IN  IF Len(entries) > 0 /\ entity_name = None
        THEN IF "name" \notin DOMAIN entries[1] THEN Raised("KeyError")
             ELSE Raised("AttributeError")          \* None.lower()
        ELSE IF i # 0 /\ "name" \notin DOMAIN entries[i] THEN Raised("KeyError")
        ELSE IF i # 0 THEN FieldAnswer(intent, entity_type, entries[i])
        ELSE IF Truthy(entity_name)
        THEN Text("no_data_for", "No data found for " \o entity_name \o ".")
        ELSE Text("no_specific_data", "I couldn't find specific data for that request.")

\* get_sensor_data, given what _fetch_all_external_data_internal returned
GetSensorData(intent, entity_name, entity_type, all_data) ==
    IF FetchFailed(all_data) THEN Text("fetch_error", all_data.obj.error)
    ELSE IF Falsy(all_data)                             \* not all_data
    THEN Text("no_factory_data", "I'm sorry, I couldn't retrieve the latest factory data.")
    ELSE IF ~IsDict(all_data) THEN Raised("AttributeError")     \* all_data.get
    ELSE
    LET rooms == GetList(all_data, "rooms")
        machines == GetList(all_data, "machines")
        cartons_num == IF HasKey(all_data, "cartons_num") THEN all_data.obj.cartons_num ELSE 0
    IN  IF intent = "get_machine_status"
        THEN MachineStatusAnswer(entity_name, entity_type, machines)
        ELSE IF intent \in MaintenanceIntents \/ intent = "alerts"
        THEN MaintenanceAnswer(intent, entity_name, machines)
        ELSE IF intent = "cartons_produced"
        THEN Text("cartons_produced",
                "The total number of cartons produced is currently "
                \o ToString(cartons_num) \o ".")
        ELSE IF intent = "cartons_sold"
        THEN Text("cartons_sold",
                "I can tell you the total cartons, but not specifically cartons sold from this data.")
        ELSE EntityAnswer(intent, entity_name, entity_type, rooms, machines)

-----------------------------------------------------------------------------
(* Inputs *)

Command(intent, name, type, light, sold, produced, buyer, desired) ==
    [intent |-> intent, entity_name |-> name, entity_type |-> type, light_num |-> light,
     cartons_sold |-> sold, cartons_produced |-> produced, buyer |-> buyer,
     desired_power_state |-> desired]

EntityTypes == {None, "room", "machine"}
LightNums == {NoneV, IntV(0), IntV(1), IntV(2), IntV(3), StrV(1)}
CartonCounts == {NoneV, IntV(-5), IntV(0), IntV(3), StrV(3)}
\* the response schema lets the generator answer "on", "off", "null" or null
DesiredStates == {None, "on", "off", "null"}

\* The Commands perform_action is given: for each actuation intent its own
\* parameters range over every shape, the others are null.
ActionCommands ==
    {Command("toggle_lights", nm, ty, ln, NoneV, NoneV, None, d) :
        nm \in {None, "Machine Room", "MACHINE ROOM", "Teleporter"},
        ty \in EntityTypes, ln \in LightNums, d \in DesiredStates}
    \cup {Command("toggle_machine_power", nm, ty, NoneV, NoneV, NoneV, None, d) :
        nm \in {None, "Furnace", "FURNACE", "Teleporter"},
        ty \in EntityTypes, d \in DesiredStates}
    \cup {Command("record_sale", None, None, NoneV, n, NoneV, b, None) :
        n \in CartonCounts, b \in {None, "Acme"}}
    \cup {Command("record_cartons", None, None, NoneV, NoneV, n, None, None) :
        n \in CartonCounts}
    \cup {Command("temperature", "Furnace", "machine", NoneV, NoneV, NoneV, None, None)}

Tokens == {None, "", "tok"}

RemoteStates ==
    [lights : {<<a, b>> : a \in BOOLEAN, b \in BOOLEAN}, power : BOOLEAN,
     maintenance : {<<"Normal Operation", "bearing_wear">>}, cartons_num : {10}]

Workers == {1, 2}

Pending == [kind |-> "pending"]

\* path = "temp.wav": the one file name every /transcribe request works on
TempWav == "temp.wav"

\* The content of a file or of an upload is a sequence of runs [b, n]: n times
\* the byte b, no two neighbouring runs of the same byte.
Bytes(b, n) == IF n <= 0 THEN <<>> ELSE <<[b |-> b, n |-> n]>>

\* The byte a write beyond the end of a file leaves in the gap.
Nul == "\\0"

\* len(content)
RECURSIVE Size(_)
Size(c) == IF c = <<>> THEN 0 ELSE Head(c).n + Size(Tail(c))

\* content[:k]
RECURSIVE Take(_, _)
Take(c, k) ==
    IF k <= 0 \/ c = <<>> THEN <<>>
    ELSE IF Head(c).n <= k THEN <<Head(c)>> \o Take(Tail(c), k - Head(c).n)
    ELSE Bytes(Head(c).b, k)

\* content[k:]
RECURSIVE Drop(_, _)
Drop(c, k) ==
    IF c = <<>> THEN <<>>
    ELSE IF k <= 0 THEN c
    ELSE IF Head(c).n <= k THEN Drop(Tail(c), k - Head(c).n)
    ELSE Bytes(Head(c).b, Head(c).n - k) \o Tail(c)

\* Neighbouring runs of the same byte are one run.
RECURSIVE Norm(_)
Norm(c) ==
    IF Len(c) < 2 THEN c
    ELSE IF c[1].b = c[2].b
    THEN Norm(Bytes(c[1].b, c[1].n + c[2].n) \o Tail(Tail(c)))
    ELSE <<c[1]>> \o Norm(Tail(c))

\* write(buf) through a handle at offset off: the bytes replace what the file
\* holds from off on, the rest of the file stays; a file that is shorter than
\* off (truncated by another open) is filled up with NUL bytes first.
WriteAt(c, off, buf) ==
    LET filled == c \o Bytes(Nul, off - Size(c))
    IN  Norm(Take(filled, off) \o buf \o Drop(filled, off + Size(buf)))

\* FileStorage.save(dst, buffer_size=16384): the upload is copied in chunks of
\* this many bytes.
BufferSize == 16384

\* request.files of a request: without or with the part "audio".
NoUpload == [present |-> FALSE]
Upload(data) == [present |-> TRUE, data |-> data]

\* A request holds no handle on a file.
NoHandle == -1

\* A path of the working directory names no file, or a file with its content
\* and, for each request that holds it open for writing, the offset of its
\* handle.
Absent == [exists |-> FALSE]
File(data, pos) == [exists |-> TRUE, data |-> data, pos |-> pos]

\* The working directory before any request: no temp.wav.
NoFiles == [f \in {TempWav} |-> Absent]

-----------------------------------------------------------------------------
(* The dispatch of a Command, one step per outbound call *)

Init ==
    /\ remote \in RemoteStates
    /\ cmd \in ActionCommands
    /\ token \in Tokens
    /\ lang = None
    /\ upload = [w \in Workers |-> NoUpload]
    /\ files = NoFiles
    /\ pc = [w \in Workers |-> "idle"]
    /\ calls = [w \in Workers |-> <<>>]
    /\ result = [w \in Workers |-> Pending]
    /\ reply = [w \in Workers |-> Pending]
    /\ dispatches = 0
    /\ posts = 0
    /\ applied = 0

\* perform_action goes on with `step`, its outbound calls so far being `log`.
Continue(w, step, log) ==
    CASE step.act = "return" ->
            /\ pc' = [pc EXCEPT ![w] = "done"]
            /\ result' = [result EXCEPT ![w] = step.result]
            /\ calls' = [calls EXCEPT ![w] = log]
            /\ posts' = posts
      [] step.act = "get" ->
            /\ pc' = [pc EXCEPT ![w] = "fetching"]
            /\ result' = [result EXCEPT ![w] = Pending]
            /\ calls' = [calls EXCEPT ![w] =
                            Append(log, [method |-> "GET", path |-> "/data/all", resp |-> Pending])]
            /\ posts' = posts
      [] OTHER ->
            /\ pc' = [pc EXCEPT ![w] = "posting"]
            /\ result' = [result EXCEPT ![w] = Pending]
            /\ calls' = [calls EXCEPT ![w] =
                            Append(log, [method |-> "POST", path |-> step.path,
                                         payload |-> step.payload, resp |-> Pending])]
            /\ posts' = posts + 1

\* The log with the response to its last call filled in.
Answered(log, resp) == [log EXCEPT ![Len(log)].resp = resp]

\* perform_action is called and runs up to its first outbound call.
Dispatch(w) ==
    /\ pc[w] \in {"idle", "done"}
    /\ dispatches < MaxDispatches
    /\ dispatches' = dispatches + 1
    /\ Continue(w, PerformActionStart(cmd, token), <<>>)
    /\ UNCHANGED <<remote, cmd, token, lang, upload, files, reply, applied>>

\* GET /data/all returns, with one of `outcomes`, and perform_action runs up to
\* its POST or its return.
FetchReturnsWith(w, outcomes) ==
    /\ pc[w] = "fetching"
    /\ \E o \in outcomes :
        LET all_data == FetchAllExternalData(o)
        IN  Continue(w, PerformActionAfterFetch(cmd, all_data), Answered(calls[w], all_data))
    /\ UNCHANGED <<remote, cmd, token, lang, upload, files, reply, dispatches, applied>>

FetchReturns(w) == FetchReturnsWith(w, GetOutcomes(remote))

\* The POST returns (the service having acted on it or not) and perform_action
\* runs to its return.
PostReturns(w) ==
    /\ pc[w] = "posting"
    /\ \E o \in PostOutcomes(remote, calls[w][Len(calls[w])]) :
        /\ remote' = o.remote
        /\ applied' = applied + (IF o.applied THEN 1 ELSE 0)
        /\ Continue(w, PerformActionAfterPost(cmd, o), Answered(calls[w], o))
    /\ UNCHANGED <<cmd, token, lang, upload, files, reply, dispatches>>

Next == Dispatch(1) \/ FetchReturns(1) \/ PostReturns(1)

Spec == Init /\ [][Next]_vars

\* The same toggle Command dispatched again and again against a service whose
\* snapshot, when it answers the read, is the documented one: it shows the
\* actual state of every light and machine.
DocumentedGetOutcomes(r) ==
    {o \in GetOutcomes(r) :
        \/ o.kind = "transport"
        \/ IsHttpError(o.status)
        \/ o.json \in {JInvalid, JObj(SnapshotOf(r))}}

FetchReturnsDocumented(w) == FetchReturnsWith(w, DocumentedGetOutcomes(remote))

InitRepeat == Init /\ cmd.intent \in {"toggle_lights", "toggle_machine_power"}

NextRepeat == Dispatch(1) \/ FetchReturnsDocumented(1) \/ PostReturns(1)

SpecRepeat == InitRepeat /\ [][NextRepeat]_vars

\* Two requests carry the same toggle Command at once: each worker dispatches
\* it one time, and the reads and writes of the two interleave freely.
DispatchOnce(w) == pc[w] = "idle" /\ Dispatch(w)

\* The toggle Commands that name a light or a machine of the service and a
\* desired state.
DesiredToggles ==
    {Command("toggle_lights", "Machine Room", "room", IntV(n), NoneV, NoneV, None, d) :
        n \in {1, 2}, d \in {"on", "off"}}
    \cup {Command("toggle_machine_power", "Furnace", "machine", NoneV, NoneV, NoneV, None, d) :
        d \in {"on", "off"}}

InitConcurrent ==
    /\ Init
    /\ token = "tok"
    /\ cmd \in DesiredToggles
    /\ cmd.desired_power_state #
            (IF cmd.intent = "toggle_lights" THEN OnOff(remote.lights[cmd.light_num.v])
             ELSE OnOff(remote.power))

NextConcurrent ==
    \E w \in Workers : DispatchOnce(w) \/ FetchReturnsDocumented(w) \/ PostReturns(w)

SpecConcurrent == InitConcurrent /\ [][NextConcurrent]_vars

-----------------------------------------------------------------------------
(* process_command: the request handler *)

\* lang_map.get(input_language, 'en') if input_language else 'en'
TtsLang(l) ==
    CASE l = "ur"    -> "ur"
      [] l = "hi"    -> "hi"
      [] l = "en"    -> "en"
      [] l = "ur-PK" -> "ur"
      [] l = "hi-IN" -> "hi"
      [] OTHER       -> "en"

Languages == {None, "en", "ur", "hi", "ur-PK", "hi-IN", "fr"}

action_intents == {"toggle_lights", "toggle_machine_power", "record_sale", "record_cartons"}

\* translate_text: the translation, or the text itself when the translator fails
Translations(text, dest) == {"[" \o dest \o "] " \o text, text}

\* os.path.basename(text_to_speech(...)): the file written, the English
\* fallback, or None when both attempts fail
AudioNames == {"response_1.mp3", "response_1_en_fallback.mp3", None}

\* jsonify({key: text, "audio_filename": ..., "audio_url": ...}), status
Json(status, key, text, audio) ==
    [kind |-> "reply", status |-> status, key |-> key, text |-> text,
     audio_filename |-> audio,
     audio_url |-> IF audio = None THEN None ELSE "/audio/" \o audio]

MsgGreeting == "Hello there! How can I assist you with the factory today?"

\* The text of the request; the Command is what parse_command made of it.
RequestText == "<text>"

Replied(w, r) ==
    /\ pc' = [pc EXCEPT ![w] = "replied"]
    /\ reply' = [reply EXCEPT ![w] = r]

\* Lines 629-663: from the arrival of the request to the first outbound call
\* of perform_action or get_sensor_data, or to the reply.
Receive(w) ==
    /\ pc[w] = "idle"
    /\ LET tts_lang == TtsLang(lang)
       IN  IF tts_lang # "en"
           THEN IF cmd.intent = "greeting"
                THEN /\ \E text \in Translations(MsgGreeting, tts_lang), audio \in AudioNames :
                            Replied(w, Json(200, "response", text, audio))
                     /\ UNCHANGED <<calls, result, posts, dispatches>>
                ELSE \* greeting_response is read before it was ever assigned
                     /\ Replied(w, Raised("UnboundLocalError"))
                     /\ UNCHANGED <<calls, result, posts, dispatches>>
           ELSE IF Truthy(cmd.intent)
           THEN IF cmd.intent \in action_intents
                THEN /\ Continue(w, PerformActionStart(cmd, token), <<>>)
                     /\ dispatches' = dispatches + 1
                     /\ UNCHANGED reply
                ELSE /\ pc' = [pc EXCEPT ![w] = "querying"]
                     /\ calls' = [calls EXCEPT ![w] =
                            <<[method |-> "GET", path |-> "/data/all", raw |-> Pending,
                               resp |-> Pending]>>]
                     /\ UNCHANGED <<result, reply, posts, dispatches>>
           ELSE /\ \E audio \in AudioNames :
                    Replied(w, Json(400, "error",
                                    "I'm sorry, I couldn't understand: " \o RequestText, audio))
                /\ UNCHANGED <<calls, result, posts, dispatches>>
    /\ UNCHANGED <<remote, cmd, token, lang, upload, files, applied>>

\* GET /data/all returns to get_sensor_data, which runs to its return.
QueryReturns(w) ==
    /\ pc[w] = "querying"
    /\ \E o \in GetOutcomes(remote) :
        LET all_data == FetchAllExternalData(o)
        IN  /\ result' = [result EXCEPT ![w] =
                    GetSensorData(cmd.intent, cmd.entity_name, cmd.entity_type, all_data)]
            /\ calls' = [calls EXCEPT ![w] =
                    [Answered(calls[w], all_data) EXCEPT ![Len(calls[w])].raw = o]]
    /\ pc' = [pc EXCEPT ![w] = "done"]
    /\ UNCHANGED <<remote, cmd, token, lang, upload, files, reply, dispatches, posts, applied>>

\* Lines 665-676: perform_action or get_sensor_data has returned (or raised);
\* the text is translated, spoken and sent.
Respond(w) ==
    /\ pc[w] = "done"
    /\ IF result[w].kind = "RAISED"
       THEN Replied(w, result[w])
       ELSE LET tts_lang == TtsLang(lang)
                texts == IF tts_lang # "en" THEN Translations(result[w].text, tts_lang)
                         ELSE {result[w].text}
            IN  \E text \in texts, audio \in AudioNames :
                    Replied(w, Json(200, "response", text, audio))
    /\ UNCHANGED <<remote, cmd, token, lang, upload, files, calls, result, dispatches, posts, applied>>

QueryIntents ==
    {None, "", "greeting", "temperature", "lights", "power_usage", "get_machine_status",
     "alerts", "not_normal", "bearing_wear", "cartons_produced", "cartons_sold",
     "unknown_intent"}

EntityRefs ==
    { <<None, None>>, <<"Furnace", "machine">>, <<"Machine Room", "room">>,
      <<None, "machine">>, <<"Teleporter", "machine">>, <<"Teleporter", None>> }

\* What parse_command hands to process_command: any intent (null and greeting
\* included) with any entity reference, and the actuation Commands.
ParsedCommands ==
    {Command(i, e[1], e[2], NoneV, NoneV, NoneV, None, None) :
        i \in QueryIntents, e \in EntityRefs}
    \cup { Command("toggle_lights", "Machine Room", "room", IntV(1), NoneV, NoneV, None, "on"),
           Command("toggle_machine_power", "Furnace", "machine", NoneV, NoneV, NoneV, None, None),
           Command("record_sale", None, None, NoneV, IntV(3), NoneV, "Acme", None),
           Command("record_cartons", None, None, NoneV, NoneV, IntV(3), None, None),
           Command("record_cartons", None, None, NoneV, NoneV, IntV(-5), None, None) }

InitPC ==
    /\ remote \in {r \in RemoteStates : r.lights[2] = FALSE}
    /\ cmd \in ParsedCommands
    /\ token \in {"", "tok"}
    /\ lang \in Languages
    /\ upload = [w \in Workers |-> NoUpload]
    /\ files = NoFiles
    /\ pc = [w \in Workers |-> "idle"]
    /\ calls = [w \in Workers |-> <<>>]
    /\ result = [w \in Workers |-> Pending]
    /\ reply = [w \in Workers |-> Pending]
    /\ dispatches = 0
    /\ posts = 0
    /\ applied = 0

NextPC == Receive(1) \/ FetchReturns(1) \/ PostReturns(1) \/ QueryReturns(1) \/ Respond(1)

SpecPC == InitPC /\ [][NextPC]_vars

-----------------------------------------------------------------------------
(* parse_command: the interpreter *)

\* return None, None, None, None, None, None, None, None
NullCommand == Command(None, None, None, NoneV, NoneV, NoneV, None, None)

\* A JSON value that is a string, a number or null, where any of them can occur.
JStr(s) == [t |-> "str", v |-> s]
JInt(n) == [t |-> "int", v |-> n]
JNone == [t |-> "none", v |-> 0]

\* str.title() on the names the model uses
Title(s) ==
    CASE s = "furnace"      -> "Furnace"
      [] s = "FURNACE"      -> "Furnace"
      [] s = "machine room" -> "Machine Room"
      [] OTHER              -> s

\* The texts the generator can put in its answer, with what json.loads makes
\* of them: no JSON, JSON that is no object, and objects with all, some or
\* none of the eight keys (entity_name is a string, a number or null).
GeneratedTexts ==
    { [text |-> "I cannot help with that.", json |-> JInvalid],
      [text |-> "null", json |-> JNull],
      [text |-> "[]", json |-> JList],
      [text |-> "5", json |-> JNum],
      [text |-> "{}", json |-> JObj(EmptyDict)] }
    \cup { [text |-> "{...}",
            json |-> JObj([intent |-> i, entity_name |-> n, entity_type |-> ty,
                           light_num |-> NoneV, cartons_sold |-> NoneV,
                           cartons_produced |-> NoneV, buyer |-> None,
                           desired_power_state |-> None])] :
            i \in {None, "temperature", "toggle_machine_power"},
            n \in {JNone, JStr(""), JStr("furnace"), JStr("FURNACE"), JStr("machine room"),
                   JStr("Furnace"), JInt(5)},
            ty \in {None, "machine"} }
    \cup { [text |-> "{\"intent\": ...}", json |-> JObj([intent |-> i])] :
            i \in {None, "alerts", "greeting"} }

\* The candidates[0] of the answer: null, without content, without parts,
\* with a part without text, or with a part carrying a text.
Candidates ==
    { [shape |-> sh, text |-> "{}", json |-> JObj(EmptyDict)] :
        sh \in {"null", "no_content", "no_parts", "no_text"} }
    \cup { [shape |-> "text", text |-> t.text, json |-> t.json] : t \in GeneratedTexts }

\* What the text-generation call can produce: no call at all (no API key), a
\* transport failure, a non-2xx response, or a 2xx response whose body is not
\* JSON, is JSON but no object, has no candidates, or has one.
GenerationOutcomes ==
    { [kind |-> "no_key"], [kind |-> "transport"] }
    \cup { [kind |-> "response", status |-> st, body |-> "error"] : st \in {400, 429, 500} }
    \cup { [kind |-> "response", status |-> 200, body |-> "invalid", exc |-> e] :
            e \in JsonErrorClasses }
    \cup { [kind |-> "response", status |-> 200, body |-> b] :
            b \in {"null", "list", "no_candidates", "empty_candidates"} }
    \cup { [kind |-> "response", status |-> 200, body |-> "candidate", candidate |-> c] :
            c \in Candidates }

\* parsed_llm_output.get(key) for a key whose value is an optional string
GetOpt(d, key) == IF key \in DOMAIN d THEN d[key] ELSE None
\* parsed_llm_output.get(key) for a key whose value is an optional number
GetOptNum(d, key) == IF key \in DOMAIN d THEN d[key] ELSE NoneV

\* Lines 228-241: the Command read from the generated JSON object; a truthy
\* entity_name is title-cased
ReadCommand(d) ==
    LET n == IF "entity_name" \in DOMAIN d THEN d.entity_name ELSE JNone
    IN  IF n.t = "int" /\ n.v # 0 THEN Raised("AttributeError")     \* (5).title()
        ELSE [kind |-> "command",
              cmd |-> Command(GetOpt(d, "intent"),
                              IF n.t = "none" THEN None
                              ELSE IF n.t = "str" /\ n.v # "" THEN Title(n.v) ELSE n.v,
                              GetOpt(d, "entity_type"), GetOptNum(d, "light_num"),
                              GetOptNum(d, "cartons_sold"), GetOptNum(d, "cartons_produced"),
                              GetOpt(d, "buyer"), GetOpt(d, "desired_power_state"))]

\* parse_command, given what the text-generation call produced: the Command,
\* or the exception that leaves it. RequestException and (json.JSONDecodeError,
\* IndexError, KeyError) are caught and answered with the null Command.
ParseCommand(o) ==
    LET null == [kind |-> "command", cmd |-> NullCommand]
    IN  IF o.kind \in {"no_key", "transport"} THEN null
        ELSE IF IsHttpError(o.status) THEN null                 \* HTTPError
        ELSE CASE o.body = "invalid" -> null                    \* response.json() raises
               [] o.body \in {"null", "list"} -> Raised("AttributeError")  \* gemini_response.get
               [] o.body \in {"no_candidates", "empty_candidates"} -> null \* [][0]: IndexError
               [] OTHER ->
                    LET c == o.candidate
                    IN  IF c.shape = "null" THEN Raised("AttributeError")   \* None.get
                        ELSE IF c.shape \in {"no_content", "no_parts"} THEN null   \* IndexError
                        ELSE IF c.json.jt = "invalid" THEN null  \* json.loads raises
                        ELSE IF ~IsDict(c.json) THEN Raised("AttributeError")
                        ELSE ReadCommand(c.json.obj)

\* process_command calls parse_command (line 639): the Command is handed on, or
\* the exception ends the request. Without an API key parse_command returns
\* before any outbound call (lines 94-96); otherwise it makes one POST.
ParseReturns(w) ==
    /\ pc[w] = "parsing"
    /\ \E o \in GenerationOutcomes :
        LET r == ParseCommand(o)
        IN  /\ calls' = [calls EXCEPT ![w] =
                    IF o.kind = "no_key" THEN <<>>
                    ELSE <<[method |-> "POST", path |-> ":generateContent", resp |-> o]>>]
            /\ IF r.kind = "RAISED"
               THEN Replied(w, r) /\ cmd' = cmd
               ELSE /\ cmd' = r.cmd
                    /\ pc' = [pc EXCEPT ![w] = "idle"]
                    /\ reply' = reply
    /\ UNCHANGED <<remote, token, lang, upload, files, result, dispatches, posts, applied>>

InitParse ==
    /\ remote \in {r \in RemoteStates : r.lights = <<FALSE, FALSE>> /\ ~r.power}
    /\ cmd = Pending
    /\ token \in {"", "tok"}
    /\ lang \in Languages
    /\ upload = [w \in Workers |-> NoUpload]
    /\ files = NoFiles
    /\ pc = [w \in Workers |-> IF w = 1 THEN "parsing" ELSE "idle"]
    /\ calls = [w \in Workers |-> <<>>]
    /\ result = [w \in Workers |-> Pending]
    /\ reply = [w \in Workers |-> Pending]
    /\ dispatches = 0
    /\ posts = 0
    /\ applied = 0

NextParse == ParseReturns(1)

SpecParse == InitParse /\ [][NextParse]_vars

-----------------------------------------------------------------------------
(* Queries: process_command with the Commands get_sensor_data resolves *)

\* The maintenance statuses the two machines can report.
MaintenanceStatuses == {"Normal Operation", "bearing_wear", "clogged_filter"}

QueryRemoteStates ==
    [lights : {<<FALSE, TRUE>>}, power : {TRUE},
     maintenance : {<<a, b>> : a \in MaintenanceStatuses, b \in MaintenanceStatuses},
     cartons_num : {10}]

\* Every intent that is no actuation, with every kind of entity reference.
QueryCommands ==
    {Command(i, e[1], e[2], NoneV, NoneV, NoneV, None, None) :
        i \in QueryIntents \cup MaintenanceIntents \cup {"humidity"},
        e \in EntityRefs \cup { <<"Conveyor", "machine">>, <<"furnace", "machine">>,
                                <<"Furnace", "room">>, <<"", "machine">> }}

InitQuery ==
    /\ remote \in QueryRemoteStates
    /\ cmd \in QueryCommands
    /\ token = ""
    /\ lang \in {None, "en", "ur"}
    /\ upload = [w \in Workers |-> NoUpload]
    /\ files = NoFiles
    /\ pc = [w \in Workers |-> "idle"]
    /\ calls = [w \in Workers |-> <<>>]
    /\ result = [w \in Workers |-> Pending]
    /\ reply = [w \in Workers |-> Pending]
    /\ dispatches = 0
    /\ posts = 0
    /\ applied = 0

NextQuery == Receive(1) \/ QueryReturns(1) \/ Respond(1)

SpecQuery == InitQuery /\ [][NextQuery]_vars

-----------------------------------------------------------------------------
(* transcribe: the speech-to-text endpoint, two requests at once *)

\* request.files of the requests checked: none, files of less than one chunk
\* and of different lengths, and files of three chunks.
Uploads ==
    {NoUpload, Upload(Bytes("A", 40)), Upload(Bytes("B", 10)),
     Upload(Bytes("A", 40000)), Upload(Bytes("B", 40000))}

\* The content spelled out, e.g. 10xB+30xA
RECURSIVE Render(_)
Render(c) ==
    IF c = <<>> THEN ""
    ELSE ToString(Head(c).n) \o "x" \o Head(c).b
         \o (IF Tail(c) = <<>> THEN "" ELSE "+" \o Render(Tail(c)))

\* What the speech model makes of the content of an audio file: the text and
\* the language.
Transcript(audio) == "words of " \o Render(audio)
DetectedLanguage(audio) == IF Head(audio).b = "A" THEN "en" ELSE "ur"

\* jsonify({"text": ..., "language": ...})
TranscriptJson(audio) ==
    [kind |-> "reply", status |-> 200, text |-> Transcript(audio),
     language |-> DetectedLanguage(audio)]

\* jsonify({"error": ...}), status
ErrorJson(status, error) == [kind |-> "reply", status |-> status, error |-> error]

\* Lines 609-613: the request arrives; without an upload it is answered 400,
\* otherwise save(path) opens temp.wav for writing, open(path, "wb"): the file
\* is created, or the one that is there is emptied (the handles other requests
\* hold on it keep their offsets); the new handle is at offset 0.
OpenUpload(w) ==
    /\ pc[w] = "idle"
    /\ IF ~upload[w].present
       THEN /\ Replied(w, ErrorJson(400, "No audio file provided"))
            /\ UNCHANGED files
       ELSE /\ files' = [files EXCEPT ![TempWav] =
                    File(<<>>, [(IF files[TempWav].exists THEN files[TempWav].pos
                                 ELSE [v \in Workers |-> NoHandle])
                                EXCEPT ![w] = 0])]
            /\ pc' = [pc EXCEPT ![w] = "saving"]
            /\ reply' = reply
    /\ UNCHANGED <<remote, cmd, token, lang, upload, calls, result, dispatches, posts, applied>>

\* Line 613, the copy loop of save(path), one step per chunk: the next chunk of
\* at most BufferSize bytes of the upload is written at the offset of the
\* request's own handle; when the upload is exhausted the file is closed.
\* When the file was removed in the meantime, the data goes to the unlinked
\* file and temp.wav stays as it is.
WriteUpload(w) ==
    /\ pc[w] = "saving"
    /\ LET f == files[TempWav]
           off == f.pos[w]
           buf == Take(Drop(upload[w].data, off), BufferSize)
       IN  IF ~f.exists \/ f.pos[w] = NoHandle
           THEN /\ pc' = [pc EXCEPT ![w] = "saved"]
                /\ UNCHANGED files
           ELSE IF buf # <<>>
           THEN /\ files' = [files EXCEPT ![TempWav] =
                        File(WriteAt(f.data, off, buf),
                             [f.pos EXCEPT ![w] = off + Size(buf)])]
                /\ UNCHANGED pc
           ELSE /\ files' = [files EXCEPT ![TempWav] =
                        File(f.data, [f.pos EXCEPT ![w] = NoHandle])]
                /\ pc' = [pc EXCEPT ![w] = "saved"]
    /\ UNCHANGED <<remote, cmd, token, lang, upload, calls, result, reply, dispatches, posts, applied>>

\* Lines 614-622: the speech model reads temp.wav; the response is built from
\* what the file holds now, or is the 500 of the exception handler when there
\* is no file or the file holds no audio.
TranscribeFile(w) ==
    /\ pc[w] = "saved"
    /\ result' = [result EXCEPT ![w] =
            IF ~files[TempWav].exists
            THEN ErrorJson(500, "[Errno 2] No such file or directory: 'temp.wav'")
            ELSE IF files[TempWav].data = <<>>
            THEN ErrorJson(500, "Invalid data found when processing input: 'temp.wav'")
            ELSE TranscriptJson(files[TempWav].data)]
    /\ pc' = [pc EXCEPT ![w] = "cleanup"]
    /\ UNCHANGED <<remote, cmd, token, lang, upload, files, calls, reply, dispatches, posts, applied>>

\* Line 624: finally, os.path.exists(path); without a file the response is sent.
CheckExists(w) ==
    /\ pc[w] = "cleanup"
    /\ IF ~files[TempWav].exists
       THEN Replied(w, result[w])
       ELSE pc' = [pc EXCEPT ![w] = "removing"] /\ reply' = reply
    /\ UNCHANGED <<remote, cmd, token, lang, upload, files, calls, result, dispatches, posts, applied>>

\* Line 625: os.remove(path); it raises when the file is gone by now, otherwise
\* the file is unlinked and the response is sent.
RemoveFile(w) ==
    /\ pc[w] = "removing"
    /\ IF ~files[TempWav].exists
       THEN Replied(w, Raised("FileNotFoundError")) /\ UNCHANGED files
       ELSE Replied(w, result[w]) /\ files' = [files EXCEPT ![TempWav] = Absent]
    /\ UNCHANGED <<remote, cmd, token, lang, upload, calls, result, dispatches, posts, applied>>

InitTranscribe ==
    /\ remote \in {r \in RemoteStates : r.lights = <<FALSE, FALSE>> /\ ~r.power}
    /\ cmd = NullCommand
    /\ token = ""
    /\ lang = None
    /\ upload \in [Workers -> Uploads]
    /\ files = NoFiles
    /\ pc = [w \in Workers |-> "idle"]
    /\ calls = [w \in Workers |-> <<>>]
    /\ result = [w \in Workers |-> Pending]
    /\ reply = [w \in Workers |-> Pending]
    /\ dispatches = 0
    /\ posts = 0
    /\ applied = 0

NextTranscribe ==
    \E w \in Workers :
        OpenUpload(w) \/ WriteUpload(w) \/ TranscribeFile(w) \/ CheckExists(w) \/ RemoveFile(w)

SpecTranscribe == InitTranscribe /\ [][NextTranscribe]_vars

-----------------------------------------------------------------------------
(* Properties of perform_action *)

ToggleIntents == {"toggle_lights", "toggle_machine_power"}
ActuationIntents == ToggleIntents \cup {"record_sale", "record_cartons"}

Methods(log) == [k \in 1..Len(log) |-> log[k].method]
NumPosts(log) == Cardinality({k \in 1..Len(log) : log[k].method = "POST"})

\* The snapshot read succeeded: a JSON object that reports no error.
ReadOk(d) == d # Pending /\ IsDict(d) /\ ~HasKey(d, "error")

\* The entries of a successfully read snapshot that carry the name of the
\* Command's entity, case-insensitively.
Addressed(c, d) ==
    LET entries == IF c.intent = "toggle_lights"
                   THEN (IF HasKey(d, "rooms") THEN d.obj.rooms ELSE <<>>)
                   ELSE (IF HasKey(d, "machines") THEN d.obj.machines ELSE <<>>)
    IN  {entries[i] : i \in {j \in 1..Len(entries) :
                                /\ "name" \in DOMAIN entries[j]
                                /\ Lower(entries[j].name) = Lower(c.entity_name)}}

\* The on/off states the snapshot shows for the light or the machine the
\* Command addresses (none when the read failed or the snapshot lacks it).
Observed(c, d) ==
    IF ~ReadOk(d) THEN {}
    ELSE IF c.intent = "toggle_lights"
    THEN {OnOff(e.lights[c.light_num.v]) :
            e \in {x \in Addressed(c, d) :
                    "lights" \in DOMAIN x /\ Len(x.lights) >= c.light_num.v}}
    ELSE {OnOff(e.power) : e \in {x \in Addressed(c, d) : "power" \in DOMAIN x}}

AlreadyText(c) ==
    IF c.intent = "toggle_lights"
    THEN "Light " \o ToString(c.light_num.v) \o " in the " \o c.entity_name
         \o " is already " \o c.desired_power_state \o "."
    ELSE "The " \o c.entity_name \o " is already " \o c.desired_power_state \o "."

\* C1: a toggle dispatch whose desired_power_state equals the state its own
\* snapshot read shows for the addressed light or machine issues no mutating
\* request and returns the "already <state>" message.
C1_Idempotent ==
    \A w \in Workers :
        ( /\ cmd.intent \in ToggleIntents
          /\ Len(calls[w]) >= 1
          /\ cmd.desired_power_state \in Observed(cmd, calls[w][1].resp) )
        => /\ Len(calls[w]) = 1
           /\ calls[w][1].method = "GET"
           /\ pc[w] = "done"
           /\ result[w].text = AlreadyText(cmd)

C1_Witness ==
    /\ pc[1] = "done"
    /\ cmd.intent = "toggle_lights"
    /\ cmd.light_num = IntV(1)
    /\ cmd.desired_power_state = "on"
    /\ Len(calls[1]) = 1
    /\ "on" \in Observed(cmd, calls[1][1].resp)
    /\ result[1].text = "Light 1 in the Machine Room is already on."

\* C2: in a toggle dispatch a POST is issued only directly after that
\* dispatch's own GET /data/all has returned a snapshot without error in which
\* the addressed room (with the addressed light) or machine is present.
C2_ReadBeforeWrite ==
    \A w \in Workers : \A k \in 1..Len(calls[w]) :
        (cmd.intent \in ToggleIntents /\ calls[w][k].method = "POST")
        => /\ k = 2
           /\ calls[w][1].method = "GET"
           /\ ReadOk(calls[w][1].resp)
           /\ Addressed(cmd, calls[w][1].resp) # {}
           /\ cmd.intent = "toggle_lights" => Observed(cmd, calls[w][1].resp) # {}

C2_Witness ==
    /\ pc[1] = "posting"
    /\ cmd.intent = "toggle_machine_power"
    /\ Methods(calls[1]) = <<"GET", "POST">>
    /\ ReadOk(calls[1][1].resp)
    /\ calls[1][2].resp = Pending

\* C3: with a null or empty token an actuation Command gets the
\* authentication-required message and no outbound call is made.
C3_AuthRequired ==
    \A w \in Workers :
        (cmd.intent \in ActuationIntents /\ token \in {None, ""} /\ pc[w] # "idle")
        => /\ pc[w] = "done"
           /\ calls[w] = <<>>
           /\ posts = 0
           /\ result[w].text = "I'm sorry, I need you to log in first to perform this action."

C3_Witness ==
    /\ pc[1] = "done"
    /\ token = ""
    /\ cmd.intent = "record_sale"
    /\ cmd.cartons_sold = IntV(3)
    /\ calls[1] = <<>>
    /\ result[1].kind = "auth_required"

\* C4: a dispatch issues at most one mutating request whatever its outcome;
\* a record_sale / record_cartons that succeeds has issued exactly one POST and
\* no GET; a toggle that issues a POST has issued exactly one GET and then
\* exactly one POST.
C4_OneWritePerDispatch ==
    \A w \in Workers :
        /\ NumPosts(calls[w]) <= 1
        /\ (pc[w] = "done" /\ result[w].kind \in {"sale_recorded", "cartons_recorded"})
            => Methods(calls[w]) = <<"POST">>
        /\ (cmd.intent \in ToggleIntents /\ NumPosts(calls[w]) >= 1)
            => Methods(calls[w]) = <<"GET", "POST">>

C4_Witness ==
    /\ pc[1] = "done"
    /\ cmd.intent = "toggle_lights"
    /\ Methods(calls[1]) = <<"GET", "POST">>
    /\ calls[1][2].resp.kind = "response"
    /\ calls[1][2].resp.status = 500
    /\ result[1].kind = "server_error"

\* The Command is a toggle with a desired state, about a light or a machine
\* the remote service has.
ToggleWithDesired ==
    /\ cmd.desired_power_state \in {"on", "off"}
    /\ \/ /\ cmd.intent = "toggle_lights"
          /\ cmd.entity_name # None
          /\ Lower(cmd.entity_name) = "machine room"
          /\ cmd.light_num \in {IntV(1), IntV(2)}
       \/ /\ cmd.intent = "toggle_machine_power"
          /\ cmd.entity_name # None
          /\ Lower(cmd.entity_name) = "furnace"

\* The actual state of the light or machine the Command is about.
EquipmentState ==
    IF cmd.intent = "toggle_lights"
    THEN OnOff(remote.lights[cmd.light_num.v])
    ELSE OnOff(remote.power)

InDesired == EquipmentState = cmd.desired_power_state

\* C5 as stated: however often the same toggle Command with a desired state is
\* dispatched, at most one mutating request is issued in total, and once all
\* the dispatches are over the equipment is in the desired state.
C5_Original ==
    ToggleWithDesired =>
        /\ posts <= 1
        /\ (dispatches = MaxDispatches /\ pc[1] = "done" /\ posts >= 1) => InDesired

\* C5, amended: however often the same toggle Command with a desired state is
\* dispatched, the remote service applies at most one mutating request; once it
\* has applied one, or a dispatch has answered "already", the equipment is in
\* the desired state; once in the desired state the equipment stays in it and
\* no further mutating request is issued.
C5_NoDoubleToggle ==
    /\ [](ToggleWithDesired =>
            /\ applied <= 1
            /\ applied = 1 => InDesired
            /\ (pc[1] = "done" /\ result[1].kind = "already") => InDesired)
    /\ [][ToggleWithDesired => (InDesired => (InDesired' /\ posts' = posts))]_vars

C5_Witness ==
    /\ ToggleWithDesired
    /\ dispatches = MaxDispatches
    /\ pc[1] = "done"
    /\ result[1].kind = "already"
    /\ posts = 2
    /\ applied = 1
    /\ InDesired

\* A Command whose parameters fail the local validation of its intent.
InvalidParams(c) ==
    \/ /\ c.intent = "record_sale"
       /\ (c.cartons_sold.t # "int" \/ c.cartons_sold.v <= 0)
    \/ /\ c.intent = "record_cartons"
       /\ (c.cartons_produced.t # "int" \/ c.cartons_produced.v <= 0)
    \/ /\ c.intent = "toggle_lights"
       /\ \/ c.entity_name = None
          \/ c.entity_type # "room"
          \/ c.light_num.t # "int"
          \/ c.light_num.v \notin {1, 2}

ClarificationFor(c) ==
    CASE c.intent = "record_sale" -> {"Please specify a valid number of cartons sold."}
      [] c.intent = "record_cartons" -> {"Please specify a valid number of cartons produced."}
      [] OTHER -> {"I need a room name and the light number (1 or 2) to toggle lights.",
                   "Light number must be 1 or 2."}

\* C6: with a token present, a record Command whose carton count is missing,
\* not an integer or not positive, and a toggle_lights Command without room
\* name, with an entity_type other than room, or with a light_num missing or
\* outside {1,2}, gets a clarification message and no outbound call is made.
C6_ValidationIsLocal ==
    \A w \in Workers :
        (token = "tok" /\ InvalidParams(cmd) /\ pc[w] # "idle")
        => /\ pc[w] = "done"
           /\ calls[w] = <<>>
           /\ posts = 0
           /\ result[w].text \in ClarificationFor(cmd)

C6_Witness ==
    /\ pc[1] = "done"
    /\ token = "tok"
    /\ cmd.intent = "record_cartons"
    /\ cmd.cartons_produced = IntV(-5)
    /\ calls[1] = <<>>
    /\ result[1].text = "Please specify a valid number of cartons produced."

\* C7: a toggle_lights with light_num n in {1,2} that reaches the write sends
\* index n-1, and when the response carries a lights array with an entry n-1
\* the text names the light n and reports that entry's state; when it carries
\* none the text still names the light n.
C7_LightIndexRoundTrip ==
    \A w \in Workers :
        (cmd.intent = "toggle_lights" /\ Len(calls[w]) = 2)
        => LET n == cmd.light_num.v
               post == calls[w][2]
               body == post.resp.json
           IN  /\ n \in {1, 2}
               /\ post.payload.light_num = n - 1
               /\ post.payload.room_name = cmd.entity_name
               /\ ( /\ pc[w] = "done"
                    /\ post.resp.kind = "response"
                    /\ post.resp.status = 200
                    /\ IsDict(body) )
                  => IF HasKey(body, "lights") /\ Len(body.obj.lights) > n - 1
                     THEN result[w].text =
                            "Light " \o ToString(n) \o " in "
                            \o (IF HasKey(body, "room_name") THEN body.obj.room_name ELSE "None")
                            \o " is now " \o OnOff(body.obj.lights[(n - 1) + 1]) \o "."
                     ELSE result[w].text =
                            "Successfully sent toggle command for light " \o ToString(n)
                            \o " in " \o cmd.entity_name
                            \o ", but could not confirm its new state."

C7_Witness ==
    /\ pc[1] = "done"
    /\ cmd.intent = "toggle_lights"
    /\ cmd.light_num = IntV(1)
    /\ Len(calls[1]) = 2
    /\ calls[1][2].payload.light_num = 0
    /\ calls[1][2].resp.kind = "response"
    /\ calls[1][2].resp.status = 200
    /\ calls[1][2].resp.json = JObj([room_name |-> "Machine Room", lights |-> <<FALSE, TRUE>>])
    /\ result[1].text = "Light 1 in Machine Room is now off."

\* The on/off states the body of a 2xx toggle response contains for the
\* toggled light or machine.
Confirmed(c, body) ==
    IF ~IsDict(body) THEN {}
    ELSE IF c.intent = "toggle_lights"
    THEN IF HasKey(body, "lights") /\ Len(body.obj.lights) >= c.light_num.v
         THEN {OnOff(body.obj.lights[c.light_num.v])} ELSE {}
    ELSE IF HasKey(body, "power") THEN {OnOff(body.obj.power)} ELSE {}

\* C8: after a successful mutating toggle request the text states an on/off
\* state only if the response body contains the state, and then states that one.
C8_ServerConfirmedOnly ==
    \A w \in Workers :
        ( /\ cmd.intent \in ToggleIntents
          /\ pc[w] = "done"
          /\ Len(calls[w]) = 2
          /\ calls[w][2].resp.kind = "response"
          /\ calls[w][2].resp.status = 200
          /\ result[w].kind = "now" )
        => result[w].state \in Confirmed(cmd, calls[w][2].resp.json)

\* C10: perform_action returns a text whatever the remote service does; it
\* never ends by raising.
C10_DispatcherNeverRaises ==
    \A w \in Workers : pc[w] = "done" => result[w].kind # "RAISED"

\* The message class the claim assigns to a non-2xx status.
ErrorClassOf(status) ==
    IF status \in {401, 403} THEN "auth_failed"
    ELSE IF status = 400 THEN "bad_request"
    ELSE IF status = 404 THEN "not_found"
    ELSE "server_error"

\* What the remote service said went wrong: the error field of its JSON body,
\* or else the body as text.
RemoteDetail(resp) ==
    IF IsDict(resp.json) /\ HasKey(resp.json, "error") THEN resp.json.obj.error
    ELSE resp.text

\* The message of each class; the four begin differently.
ErrorMessage(resp) ==
    CASE ErrorClassOf(resp.status) = "auth_failed" ->
            "Authentication failed. Please ensure you are logged in."
      [] ErrorClassOf(resp.status) = "bad_request" -> "Bad request: " \o RemoteDetail(resp)
      [] ErrorClassOf(resp.status) = "not_found" -> "Entity not found: " \o RemoteDetail(resp)
      [] OTHER -> "Failed to perform action due to a server error: " \o resp.text

\* C11: a mutating request answered with a non-2xx status ends the dispatch
\* with the message of the status's class (401/403 authentication failed, 400
\* bad request with the remote detail, 404 entity not found with the remote
\* detail, anything else the server-failure message), never with a success
\* message and never by raising.
C11_ErrorTaxonomy ==
    \A w \in Workers :
        ( /\ pc[w] = "done"
          /\ Len(calls[w]) > 0
          /\ calls[w][Len(calls[w])].method = "POST"
          /\ calls[w][Len(calls[w])].resp.kind = "response"
          /\ ~(calls[w][Len(calls[w])].resp.status \in 200..299) )
        => /\ result[w].kind = ErrorClassOf(calls[w][Len(calls[w])].resp.status)
           /\ result[w].text = ErrorMessage(calls[w][Len(calls[w])].resp)

-----------------------------------------------------------------------------
(* Properties of process_command *)

\* C9: whatever the Command and the language hint, process_command ends with
\* a reply that carries a text; it never ends by raising.
C9_NoRequestCrashes ==
    \A w \in Workers : pc[w] = "replied" => reply[w].kind = "reply"

-----------------------------------------------------------------------------
(* Properties of get_sensor_data *)

\* get_sensor_data has returned (or raised) in request w.
Queried(w) == pc[w] = "done" /\ cmd.intent \notin action_intents

\* What the snapshot read of request w produced, and what the fetcher made of it.
ReadOutcome(w) == calls[w][1].raw
Snapshot(w) == calls[w][1].resp

\* The read gave a snapshot to answer from: a JSON object that reports no error
\* and is not empty (an empty one is answered as data that could not be
\* retrieved, like a failed read).
Retrieved(d) == ReadOk(d) /\ ~Falsy(d)

\* The three ways a snapshot read fails.
FetchFailureKind(o) ==
    IF o.kind = "transport" THEN "transport"
    ELSE IF o.status \notin 200..299 THEN "status"
    ELSE IF o.json.jt = "invalid" THEN "malformed"
    ELSE "none"

\* The message of each kind of failure; the three differ.
FetchFailureMessage(o) ==
    CASE FetchFailureKind(o) = "transport" ->
            "Network error retrieving data from factory system."
      [] FetchFailureKind(o) = "status" -> "Failed to retrieve data: " \o o.text
      [] OTHER -> "Error parsing data from factory system."

\* C12: get_sensor_data reads the snapshot exactly once, and when that read
\* fails it returns the message of the failure's kind (transport, non-2xx
\* status, malformed body), whatever the intent.
C12_FetchFailuresDistinct ==
    \A w \in Workers :
        Queried(w) =>
            /\ Methods(calls[w]) = <<"GET">>
            /\ FetchFailureKind(ReadOutcome(w)) # "none" =>
                    result[w] = Text("fetch_error", FetchFailureMessage(ReadOutcome(w)))

\* The two single-entity answers of a maintenance intent about entity `name`.
SingleEntityAnswers(intent, name) ==
    { "The " \o name \o " is currently " \o DisplayName(intent) \o ".",
      "The " \o name \o " is not currently " \o DisplayName(intent) \o "." }

\* C13: for a Command whose intent is a key of the maintenance map and that
\* names an entity, the answer from a snapshot that was read is a sentence
\* about the named entity, never the list of the matching machines.
C13_EntityTakesPrecedence ==
    \A w \in Workers :
        ( /\ Queried(w)
          /\ cmd.intent \in MaintenanceIntents
          /\ Truthy(cmd.entity_name)
          /\ Retrieved(Snapshot(w)) )
        => /\ result[w].kind # "RAISED"
           /\ result[w].text \in SingleEntityAnswers(cmd.intent, cmd.entity_name)

C13_Witness ==
    /\ Queried(1)
    /\ cmd.intent = "not_normal"
    /\ cmd.entity_name = "Furnace"
    /\ Retrieved(Snapshot(1))
    /\ remote.maintenance = <<"bearing_wear", "clogged_filter">>
    /\ result[1].text = "The Furnace is currently not operating normally."

\* The intents answered from one field of one entity.
PerEntityIntents ==
    {c.intent : c \in QueryCommands} \
        (MaintenanceIntents \cup {None, "", "greeting", "get_machine_status", "alerts",
                                  "cartons_produced", "cartons_sold"})

\* The entity the Command refers to is in snapshot d: an entry of the list of
\* its type carries its name, letter case aside.
Resolvable(c, d) ==
    /\ Truthy(c.entity_name)
    /\ c.entity_type \in {"machine", "room"}
    /\ LET entries == GetList(d, IF c.entity_type = "machine" THEN "machines" ELSE "rooms")
       IN  \E i \in 1..Len(entries) :
                /\ "name" \in DOMAIN entries[i]
                /\ Lower(entries[i].name) = Lower(c.entity_name)

\* C14: a per-entity query whose entity is not in the snapshot (no entry has
\* the name, or the Command has a type and no name) is answered "No data found
\* for <name>." when there is a name and with the generic could-not-find
\* message when there is none; get_sensor_data does not raise.
C14_UnresolvedIsNotFound ==
    \A w \in Workers :
        ( /\ Queried(w)
          /\ cmd.intent \in PerEntityIntents
          /\ Retrieved(Snapshot(w))
          /\ ~Resolvable(cmd, Snapshot(w)) )
        => result[w] =
                IF Truthy(cmd.entity_name)
                THEN Text("no_data_for", "No data found for " \o cmd.entity_name \o ".")
                ELSE Text("no_specific_data", "I couldn't find specific data for that request.")

\* Every machine entry of snapshot d carries a name and a maintenance status.
MachinesComplete(d) ==
    \A i \in 1..Len(GetList(d, "machines")) :
        {"name", "maintenance"} \subseteq DOMAIN GetList(d, "machines")[i]

\* The predicate of an aggregate intent on a maintenance status: for alerts
\* "not Normal Operation", otherwise the catalog's exact match or not-equal.
Satisfies(intent, status) ==
    IF intent = "alerts" THEN status # "Normal Operation"
    ELSE IF maintenance_status_map(intent).op = "ne"
    THEN status # maintenance_status_map(intent).value
    ELSE status = maintenance_status_map(intent).value

\* The names of the machines of d that satisfy the intent's predicate, in the
\* order of the snapshot.
MatchingNames(intent, d) ==
    LET hits == SelectSeq(GetList(d, "machines"),
                          LAMBDA m : Satisfies(intent, m.maintenance))
    IN  [i \in 1..Len(hits) |-> hits[i].name]

\* The sentence that lists `names` for the intent, or says there are none.
ListingSentence(intent, names) ==
    IF intent = "alerts"
    THEN IF names = <<>>
         THEN "There are no machines currently reporting alerts or abnormal status."
         ELSE "The machines currently reporting alerts or abnormal status are: "
              \o Join(names) \o "."
    ELSE IF names = <<>>
         THEN "No machines found that are currently " \o DisplayName(intent) \o "."
         ELSE "The machines currently " \o DisplayName(intent) \o " are: "
              \o Join(names) \o "."

\* C16: for a Command without entity name whose intent is a key of the
\* maintenance map or is alerts, the answer from a snapshot whose machines all
\* carry a name and a status lists exactly the machines whose status satisfies
\* the intent's predicate, in snapshot order and comma-joined, or says that
\* there are none.
C16_AggregateListing ==
    \A w \in Workers :
        ( /\ Queried(w)
          /\ cmd.intent \in MaintenanceIntents \cup {"alerts"}
          /\ ~Truthy(cmd.entity_name)
          /\ Retrieved(Snapshot(w))
          /\ MachinesComplete(Snapshot(w)) )
        => /\ result[w].kind # "RAISED"
           /\ result[w].text =
                ListingSentence(cmd.intent, MatchingNames(cmd.intent, Snapshot(w)))

C16_Witness ==
    /\ Queried(1)
    /\ cmd.intent = "not_normal"
    /\ cmd.entity_name = None
    /\ Retrieved(Snapshot(1))
    /\ remote.maintenance = <<"bearing_wear", "clogged_filter">>
    /\ result[1].text = "The machines currently not operating normally are: Conveyor, Furnace."

\* The machine of snapshot d that the Command names (letter case aside) has a
\* maintenance status that satisfies the Command's intent.
NamedMachineSatisfies(c, d) ==
    \E i \in 1..Len(GetList(d, "machines")) :
        /\ Lower(GetList(d, "machines")[i].name) = Lower(c.entity_name)
        /\ Satisfies(c.intent, GetList(d, "machines")[i].maintenance)

\* C19: for a Command with a maintenance-map intent and an entity name, the
\* answer is "The <entity> is currently <status>." exactly when the named
\* machine's own status in the snapshot satisfies the intent's predicate, and
\* "The <entity> is not currently <status>." otherwise, whatever the statuses
\* of the other machines.
C19_AnswerReflectsNamedMachine ==
    \A w \in Workers :
        ( /\ Queried(w)
          /\ cmd.intent \in MaintenanceIntents
          /\ Truthy(cmd.entity_name)
          /\ Retrieved(Snapshot(w))
          /\ MachinesComplete(Snapshot(w)) )
        => result[w].text =
             "The " \o cmd.entity_name \o
             (IF NamedMachineSatisfies(cmd, Snapshot(w)) THEN " is currently "
              ELSE " is not currently ")
             \o DisplayName(cmd.intent) \o "."

-----------------------------------------------------------------------------
(* Properties of parse_command *)

\* parse_command returns (or raises) in request w in this step.
Parses(w) == pc[w] = "parsing" /\ pc'[w] # "parsing"

\* The text-generation call was made in request w (there was an API key).
Generated(w) == Len(calls[w]) = 1 /\ calls[w][1].path = ":generateContent"

\* The generation call of request w produced a text that is a JSON object.
GeneratedObject(o) ==
    /\ o.kind = "response"
    /\ o.status = 200
    /\ o.body = "candidate"
    /\ o.candidate.shape \in {"text", "no_text"}
    /\ IsDict(o.candidate.json)

\* C15: whatever the text-generation call produces, parse_command does not
\* raise; it returns the Command with all eight fields null unless the call
\* produced a JSON object, from which the Command is then read.
C15_InterpreterNeverRaises ==
    [][\A w \in Workers :
        Parses(w) =>
            /\ reply'[w].kind # "RAISED"
            /\ pc'[w] = "idle"
            /\ IF Generated(w)' /\ GeneratedObject(calls'[w][1].resp)
               THEN cmd'.intent = GetOpt(calls'[w][1].resp.candidate.json.obj, "intent")
               ELSE cmd' = NullCommand]_vars

-----------------------------------------------------------------------------
(* Properties of concurrent requests *)

\* The response to the /transcribe request of worker w when no other request
\* runs: the transcript of its own upload, or the 400 for a request without one.
TranscribedAlone(w) ==
    IF ~upload[w].present THEN ErrorJson(400, "No audio file provided")
    ELSE TranscriptJson(upload[w].data)

\* C17: in every interleaving of two /transcribe requests each request is
\* answered as it would be when run alone: with the transcript of its own
\* upload (no request works on a file the other wrote or deleted).
C17_RequestsIndependent ==
    \A w \in Workers : pc[w] = "replied" => reply[w] = TranscribedAlone(w)

\* C18: when two dispatches of the same toggle Command with a desired state
\* run at once against equipment that is not in that state, the remote service
\* carries out at most one mutating request, and once a request was carried
\* out and both dispatches are over the equipment is in the desired state.
C18_ConcurrentIdempotent ==
    ToggleWithDesired =>
        /\ applied <= 1
        /\ (applied >= 1 /\ \A w \in Workers : pc[w] = "done") => InDesired

====
